---------------------------- MODULE Spec2Model ----------------------------
(***************************************************************************)
(* Model of the object detection server (object_detection_server/app.py).  *)
(*                                                                         *)
(* The process loads one YOLO model at import time, then serves            *)
(*   GET  /        home()                                                  *)
(*   POST /detect  detect_objects()                                        *)
(* from several request threads.  The external collaborators (the image    *)
(* decoder cv2.imdecode and the ultralytics model call) are modelled by    *)
(* what the handler can observe of them:                                   *)
(*   - imdecode returns a frame, returns None, or (for an empty buffer)    *)
(*     raises, depending on the OpenCV build;                              *)
(*   - the model call is a function of the loaded weights and the frame:   *)
(*     it clips the candidate boxes to the frame, keeps those whose        *)
(*     confidence exceeds the conf argument, and may fail with an          *)
(*     exception.                                                          *)
(* Real-valued pixel coordinates are fixed-point numbers with Sub units    *)
(* per pixel; confidences are percentages.                                 *)
(***************************************************************************)
EXTENDS Integers, Sequences, FiniteSets, TLC

\* ------------------------------------------------------------- bounds ---
NumThreads == 2       \* request threads of the web framework
MaxRequests == 3      \* requests accepted in a run of the server
MaxCalls == 1         \* requests accepted in a run of the single-call spec
MaxBoxes == 2         \* longest list of candidate boxes of the model
Sub == 2              \* fixed-point units per pixel

Threads == 1..NumThreads

\* --------------------------------------------------------- constants ---
\* conf=0.5 of the model call, as a percentage
ConfArg == 50

\* ------------------------------------------------------------ uploads ---
\* The byte strings a client may upload: b"", bytes that are no image, and
\* two encoded pictures of different shapes.
EmptyBytes == "empty"
JunkBytes == "junk"
Pictures == {"imgA", "imgB"}
Uploads == {EmptyBytes, JunkBytes} \cup Pictures
Absent == "absent"

\* Decoded frames (height x width x 3): what matters here is the shape.
Shape == [imgA |-> [w |-> 2, h |-> 1], imgB |-> [w |-> 1, h |-> 2]]
FrameOf(p) == [id |-> p, w |-> Shape[p].w, h |-> Shape[p].h]
NoFrame == [id |-> "None", w |-> 0, h |-> 0]

\* cv2.imdecode(np.frombuffer(data)): the possible outcomes.
\* An empty buffer fails the decoder's !buf.empty() assertion in current
\* OpenCV builds (cv2.error), and yields None in older ones.
DecodeError == "cv2.error: (-215:Assertion failed) !buf.empty()"
imdecode(data) ==
    IF data = EmptyBytes
    THEN {[raised |-> DecodeError, frame |-> NoFrame],
          [raised |-> "", frame |-> NoFrame]}
    ELSE IF data \in Pictures
    THEN {[raised |-> "", frame |-> FrameOf(data)]}
    ELSE {[raised |-> "", frame |-> NoFrame]}

\* ----------------------------------------------------------- requests ---
Fields == {"video_frame", "image"}
GetHome == [method |-> "GET /", fields |-> {}, data |-> Absent]
PostDetect ==
    {[method |-> "POST /detect", fields |-> fs, data |-> d] :
        fs \in SUBSET Fields, d \in Uploads \cup {Absent}}
Requests ==
    {GetHome} \cup
    {r \in PostDetect : ("video_frame" \in r.fields) <=> (r.data # Absent)}

\* 'video_frame' in request.files
ChecksAnyFile(r) == r.fields # {}
HasFrameField(r) == "video_frame" \in r.fields

\* ---------------------------------------------------------- the model ---
Classes == {0, 1}
names == (0 :> "person") @@ (1 :> "bicycle")
ConfLevels == {30, 50, 70}

\* Candidate boxes of a picture, before the library clips them: corners in
\* fixed-point units, from one unit outside the frame on each side.
XCoords(p) == (0 - 1) .. (Shape[p].w * Sub + 1)
YCoords(p) == (0 - 1) .. (Shape[p].h * Sub + 1)
Geoms(p) ==
    {<<x1, y1, x2, y2>> : x1 \in XCoords(p), y1 \in YCoords(p),
                          x2 \in XCoords(p), y2 \in YCoords(p)}
WideGeoms(p) == {g \in Geoms(p) : g[1] <= g[3] /\ g[2] <= g[4]}
\* the whole frame, and a box half a unit wide that leaves the frame below
FewGeoms(p) ==
    {<<0, 0, Shape[p].w * Sub, Shape[p].h * Sub>>,
     <<Sub, 0, Sub + 1, Shape[p].h * Sub + 1>>}
MkBox(c, k, g) == [cls |-> c, conf |-> k, xyxy |-> g]
WideBoxes(p) ==
    {MkBox(c, k, g) : c \in Classes, k \in ConfLevels, g \in WideGeoms(p)}
FewBoxes(p) ==
    {MkBox(c, k, g) : c \in Classes, k \in ConfLevels, g \in FewGeoms(p)}
SeqsUpTo(S, n) == UNION {[1..k -> S] : k \in 0..n}
CandidateLists(p) ==
    SeqsUpTo(FewBoxes(p), MaxBoxes) \cup {<<b>> : b \in WideBoxes(p)}

\* The loaded model: its class-name table and, standing for its weights,
\* the candidate boxes it computes for each picture.
NoModel == [loaded |-> FALSE, names |-> <<>>, predict |-> <<>>]
MkModel(f) == [loaded |-> TRUE, names |-> names, predict |-> f]
\* weights that see something in one picture only, anything at all
AllModels ==
    UNION {{MkModel([q \in Pictures |-> IF q = p THEN l ELSE <<>>]) :
               l \in CandidateLists(p)} : p \in Pictures}
\* a few weights, for the runs with several threads
ServerLists(p) ==
    LET full == <<0, 0, Shape[p].w * Sub, Shape[p].h * Sub>>
        thin == <<Sub, 0, Sub + 1, Shape[p].h * Sub + 1>>
    IN  {<<MkBox(0, 70, full)>>,
         <<MkBox(1, 70, thin), MkBox(0, 30, full)>>}
ServerModels ==
    {MkModel(f) :
        f \in {g \in [Pictures -> UNION {ServerLists(p) : p \in Pictures}] :
                  \A p \in Pictures : g[p] \in ServerLists(p)}}

\* ------------------------------------------- the ultralytics model call ---
Clamp(v, lo, hi) == IF v < lo THEN lo ELSE IF v > hi THEN hi ELSE v
\* scale_boxes / clip_boxes: corners are clipped to the frame
ClipBox(b, f) ==
    [b EXCEPT !.xyxy = <<Clamp(b.xyxy[1], 0, f.w * Sub),
                         Clamp(b.xyxy[2], 0, f.h * Sub),
                         Clamp(b.xyxy[3], 0, f.w * Sub),
                         Clamp(b.xyxy[4], 0, f.h * Sub)>>]
\* model(frame, conf=c): one Results object for the one frame, holding the
\* clipped candidates whose confidence exceeds c, in the model's order
ModelCall(m, f, c) ==
    LET cand == m.predict[f.id]
        clipped == [i \in 1..Len(cand) |-> ClipBox(cand[i], f)]
    IN  <<[boxes |-> SelectSeq(clipped, LAMBDA b : b.conf > c)]>>
InferenceError == "RuntimeError: inference failed"

\* ------------------------------------------------ detect_objects, pure ---
\* int(x): truncation towards zero of a real given in fixed-point units
PyInt(q) == IF q >= 0 THEN q \div Sub ELSE 0 - ((0 - q) \div Sub)
PyCeil(q) == 0 - ((0 - q) \div Sub)

\* x1, y1, x2, y2 = map(int, box.xyxy[0]);  "bbox": [x1, y1, x2, y2]
BBoxInward(xyxy) ==
    <<PyCeil(xyxy[1]), PyCeil(xyxy[2]), PyInt(xyxy[3]), PyInt(xyxy[4])>>
BBoxOf(xyxy) ==
    <<PyInt(xyxy[1]), PyInt(xyxy[2]), PyInt(xyxy[3]), PyInt(xyxy[4])>>

\* the dictionary appended for one box
DetectionOf(m, b) ==
    [label |-> m.names[b.cls], confidence |-> b.conf, bbox |-> BBoxOf(b.xyxy)]

\* for result in results: for box in result.boxes: detections.append(...)
RECURSIVE MapResults(_, _)
MapResultsPrepending(m, rs) ==
    IF rs = <<>> THEN <<>>
    ELSE LET bs == rs[1].boxes
         IN  MapResults(m, Tail(rs)) \o
             [i \in 1..Len(bs) |-> DetectionOf(m, bs[Len(bs) + 1 - i])]
MapResults(m, rs) ==
    IF rs = <<>> THEN <<>>
    ELSE LET bs == rs[1].boxes
         IN  [i \in 1..Len(bs) |-> DetectionOf(m, bs[i])] \o
             MapResults(m, Tail(rs))
\* model.names[cls] raises KeyError for an index outside the table
UnknownClass(m, rs) ==
    \E i \in 1..Len(rs) : \E j \in 1..Len(rs[i].boxes) :
        rs[i].boxes[j].cls \notin DOMAIN m.names
KeyError == "KeyError"

\* the conf argument the handler passes to the model
ConfArgHalved == ConfArg \div 2
InferenceConf == ConfArg

\* ---------------------------------------------------------- responses ---
NoResponse == [status |-> 0, kind |-> "none", error |-> "", detections |-> <<>>]
HomeResponse == [status |-> 200, kind |-> "html", error |-> "", detections |-> <<>>]
JsonError(code, msg) ==
    [status |-> code, kind |-> "json", error |-> msg, detections |-> <<>>]
JsonDetections(ds) ==
    [status |-> 200, kind |-> "json", error |-> "", detections |-> ds]
NoFrameProvided == "No video frame provided"
InvalidFrame == "Invalid frame data"
\* except Exception as e: return jsonify({"error": str(e)}), 500
Unhandled(msg) ==
    [status |-> 500, kind |-> "html", error |-> "Internal Server Error",
     detections |-> <<>>]
OnException(msg) == JsonError(500, msg)

\* ---------------------------------------------------------------- log ---
LogEntry(level, msg, n, detail) ==
    [level |-> level, msg |-> msg, n |-> n, detail |-> detail]
LoadedEntry == LogEntry("INFO", "YOLOv8 model loaded successfully", 0, "")
LoadError == "FileNotFoundError: yolov8m.pt"
LoadFailedEntry == LogEntry("ERROR", "Failed to load YOLOv8 model", 0, LoadError)
DetectedEntry(n) == LogEntry("INFO", "Detected object(s)", n, "")
ErrorEntry(msg) == LogEntry("ERROR", "Error processing frame", 0, msg)
\* -------------------------------------------------------------- state ---
VARIABLES
    phase,       \* "loading", "serving" or "terminated"
    model,       \* the module-level name `model`
    log,         \* the records written through `logger`
    handled,     \* number of requests accepted so far
    pc,          \* per thread: position of its handler invocation
    req,         \* per thread: flask's `request`
    frame,       \* per invocation: the local `frame`
    results,     \* per invocation: the local `results`
    detections,  \* per invocation: the local `detections`
    exc,         \* per thread: the exception travelling to the except clause
    calls,       \* per thread: model calls made for the current request
    response,    \* per thread: what the handler returned
    first        \* per picture: the detections of its first 200 response

vars == <<phase, model, log, handled, pc, req, frame, results, detections,
          exc, calls, response, first>>

\* The locals of detect_objects belong to the invocation that runs in
\* thread t.
SlotShared(t) == 1
Slot(t) == t

NotSeen == [seen |-> FALSE, dets |-> <<>>]

Init ==
    /\ phase = "loading"
    /\ model = NoModel
    /\ log = <<>>
    /\ handled = 0
    /\ pc = [t \in Threads |-> "idle"]
    /\ req = [t \in Threads |-> GetHome]
    /\ frame = [t \in Threads |-> NoFrame]
    /\ results = [t \in Threads |-> <<>>]
    /\ detections = [t \in Threads |-> <<>>]
    /\ exc = [t \in Threads |-> ""]
    /\ calls = [t \in Threads |-> 0]
    /\ response = [t \in Threads |-> NoResponse]
    /\ first = [p \in Pictures |-> NotSeen]

threadVars == <<pc, req, frame, results, detections, exc, calls, response>>

\* ------------------------------------------------------- model loading ---
\* model = YOLO("yolov8m.pt"); logger.info(...)
LoadOk(Models) ==
    /\ phase = "loading"
    /\ \E m \in Models : model' = m
    /\ log' = Append(log, LoadedEntry)
    /\ phase' = "serving"
    /\ UNCHANGED <<handled, threadVars, first>>

\* except Exception as e: logger.error(...); raise
SwallowLoadFailure == "serving"
AfterLoadFailure == "terminated"

LoadFail ==
    /\ phase = "loading"
    /\ log' = Append(log, LoadFailedEntry)
    /\ phase' = AfterLoadFailure
    /\ UNCHANGED <<model, handled, threadVars, first>>

\* ------------------------------------------------------------- home() ---
home(t, limit) ==
    /\ phase = "serving"
    /\ pc[t] = "idle"
    /\ handled < limit
    /\ handled' = handled + 1
    /\ req' = [req EXCEPT ![t] = GetHome]
    /\ response' = [response EXCEPT ![t] = HomeResponse]
    /\ pc' = [pc EXCEPT ![t] = "done"]
    /\ UNCHANGED <<phase, model, log, frame, results, detections, exc, calls,
                   first>>

\* ----------------------------------------------------- detect_objects ---
\* lines 42-51: the field check and the decoding
DetectDecode(t, limit) ==
    /\ phase = "serving"
    /\ pc[t] = "idle"
    /\ handled < limit
    /\ handled' = handled + 1
    /\ \E r \in Requests \ {GetHome} :
        /\ req' = [req EXCEPT ![t] = r]
        /\ IF ~HasFrameField(r)
           THEN /\ response' = [response EXCEPT ![t] = JsonError(400, NoFrameProvided)]
                /\ pc' = [pc EXCEPT ![t] = "done"]
                /\ UNCHANGED <<frame, exc>>
           ELSE IF r.data = Absent
           THEN \* request.files['video_frame'] on a missing key
                /\ exc' = [exc EXCEPT ![t] = KeyError]
                /\ pc' = [pc EXCEPT ![t] = "except"]
                /\ UNCHANGED <<frame, response>>
           ELSE \E d \in imdecode(r.data) :
                IF d.raised # ""
                THEN /\ exc' = [exc EXCEPT ![t] = d.raised]
                     /\ pc' = [pc EXCEPT ![t] = "except"]
                     /\ UNCHANGED <<frame, response>>
                ELSE /\ frame' = [frame EXCEPT ![Slot(t)] = d.frame]
                     /\ UNCHANGED exc
                     /\ IF d.frame = NoFrame
                        THEN /\ response' = [response EXCEPT ![t] = JsonError(400, InvalidFrame)]
                             /\ pc' = [pc EXCEPT ![t] = "done"]
                        ELSE /\ pc' = [pc EXCEPT ![t] = "infer"]
                             /\ UNCHANGED response
    /\ UNCHANGED <<phase, model, log, results, detections, calls, first>>

\* line 54: results = model(frame, conf=0.5, iou=0.7, imgsz=640)
\* The call returns the results for the frame or raises; without a frame it
\* can only raise.
DetectInfer(t) ==
    /\ pc[t] = "infer"
    /\ calls' = [calls EXCEPT ![t] = calls[t] + 1]
    /\ \/ /\ frame[Slot(t)] # NoFrame
          /\ results' = [results EXCEPT ![Slot(t)] =
                            ModelCall(model, frame[Slot(t)], InferenceConf)]
          /\ pc' = [pc EXCEPT ![t] = "map"]
          /\ UNCHANGED exc
       \/ /\ exc' = [exc EXCEPT ![t] = InferenceError]
          /\ pc' = [pc EXCEPT ![t] = "except"]
          /\ UNCHANGED results
    /\ UNCHANGED <<phase, model, log, handled, req, frame, detections,
                   response, first>>

\* lines 56-67: detections = []; the two loops
DetectMap(t) ==
    /\ pc[t] = "map"
    /\ IF UnknownClass(model, results[Slot(t)])
       THEN /\ exc' = [exc EXCEPT ![t] = KeyError]
            /\ pc' = [pc EXCEPT ![t] = "except"]
            /\ UNCHANGED detections
       ELSE /\ detections' = [detections EXCEPT ![Slot(t)] =
                                 MapResults(model, results[Slot(t)])]
            /\ pc' = [pc EXCEPT ![t] = "respond"]
            /\ UNCHANGED exc
    /\ UNCHANGED <<phase, model, log, handled, req, frame, results, calls,
                   response, first>>

\* lines 69-70: logger.info(...); return jsonify({"detections": detections})
DetectRespond(t) ==
    /\ pc[t] = "respond"
    /\ log' = Append(log, DetectedEntry(Len(detections[Slot(t)])))
    /\ response' = [response EXCEPT ![t] = JsonDetections(detections[Slot(t)])]
    /\ first' = IF first[req[t].data].seen THEN first
                ELSE [first EXCEPT ![req[t].data] =
                         [seen |-> TRUE, dets |-> detections[Slot(t)]]]
    /\ pc' = [pc EXCEPT ![t] = "done"]
    /\ UNCHANGED <<phase, model, handled, req, frame, results, detections,
                   exc, calls>>

\* lines 72-74: logger.error(...); return jsonify({"error": str(e)}), 500
DetectExcept(t) ==
    /\ pc[t] = "except"
    /\ log' = Append(log, ErrorEntry(exc[t]))
    /\ response' = [response EXCEPT ![t] = OnException(exc[t])]
    /\ pc' = [pc EXCEPT ![t] = "done"]
    /\ UNCHANGED <<phase, model, handled, req, frame, results, detections,
                   exc, calls, first>>

\* The framework sends the response; the invocation and its locals end.
Return(t) ==
    /\ pc[t] = "done"
    /\ pc' = [pc EXCEPT ![t] = "idle"]
    /\ req' = [req EXCEPT ![t] = GetHome]
    /\ frame' = [frame EXCEPT ![Slot(t)] = NoFrame]
    /\ results' = [results EXCEPT ![Slot(t)] = <<>>]
    /\ detections' = [detections EXCEPT ![Slot(t)] = <<>>]
    /\ exc' = [exc EXCEPT ![t] = ""]
    /\ calls' = [calls EXCEPT ![t] = 0]
    /\ response' = [response EXCEPT ![t] = NoResponse]
    /\ UNCHANGED <<phase, model, log, handled, first>>

\* ---------------------------------------------------- specifications ---
\* the server with its request threads
Next ==
    \/ LoadOk(ServerModels)
    \/ LoadFail
    \/ \E t \in Threads :
        \/ home(t, MaxRequests)
        \/ DetectDecode(t, MaxRequests)
        \/ DetectInfer(t)
        \/ DetectMap(t)
        \/ DetectRespond(t)
        \/ DetectExcept(t)
        \/ Return(t)

Spec == Init /\ [][Next]_vars

\* one thread, any weights: the handler as a function of model and request
NextCall ==
    \/ LoadOk(AllModels)
    \/ LoadFail
    \/ home(1, MaxCalls)
    \/ DetectDecode(1, MaxCalls)
    \/ DetectInfer(1)
    \/ DetectMap(1)
    \/ DetectRespond(1)
    \/ DetectExcept(1)
    \/ Return(1)

SpecCall == Init /\ [][NextCall]_vars


\* ------------------------------------------------------------- claims ---
Done(t) == pc[t] = "done"
IsDetect(t) == req[t].method = "POST /detect"
Ok200(t) == Done(t) /\ response[t].status = 200 /\ response[t].kind = "json"

\* C1: a POST /detect request without a video_frame field is answered with
\* 400 and {"error": "No video frame provided"}, whatever else it carries
\* and whatever was handled before.
C1_MissingField400 ==
    \A t \in Threads :
        (Done(t) /\ IsDetect(t) /\ "video_frame" \notin req[t].fields)
            => response[t] = [status |-> 400, kind |-> "json",
                              error |-> "No video frame provided",
                              detections |-> <<>>]
\* such a request, carrying another file, answered after earlier requests
W_C1 ==
    \E t \in Threads :
        /\ Done(t) /\ IsDetect(t) /\ req[t].fields = {"image"}
        /\ response[t].status = 400
        /\ handled > 1

\* C2: a video_frame that is no decodable image (the empty byte string
\* included) is always answered with 400 and {"error": "Invalid frame
\* data"}, never with 500 or 200.
C2_Undecodable400 ==
    \A t \in Threads :
        (Done(t) /\ IsDetect(t) /\ req[t].data \in {"empty", "junk"})
            => response[t] = [status |-> 400, kind |-> "json",
                              error |-> "Invalid frame data",
                              detections |-> <<>>]

C4_ExceptionsAnswered500 ==
    \A t \in Threads :
        /\ (pc[t] = "except") => (exc[t] # "" /\ response[t] = NoResponse)
        /\ (Done(t) /\ exc[t] # "") =>
               /\ response[t] = [status |-> 500, kind |-> "json",
                                 error |-> exc[t], detections |-> <<>>]
               /\ calls[t] <= 1
               /\ phase = "serving"
\* an inference failure answered after an earlier request failed in decoding
W_C4 ==
    \E t \in Threads :
        /\ Done(t) /\ exc[t] = InferenceError /\ response[t].status = 500
        /\ \E i \in 1..Len(log) : log[i].detail = DecodeError

\* C5: every failing POST /detect call (400 or 500) has logged its error
\* message by the time its response is returned.
C5_EveryFailureLogged ==
    \A t \in Threads :
        (Done(t) /\ IsDetect(t) /\ response[t].status \in {400, 500}) =>
            \E i \in 1..Len(log) :
                log[i].level = "ERROR" /\ log[i].detail = response[t].error

\* C6: no request is handled before the model is loaded; a failed load is
\* logged and ends the process, which never accepts a request.
C6_LoadBeforeServing ==
    /\ (handled > 0 \/ \E t \in Threads : pc[t] # "idle") =>
           (phase = "serving" /\ model.loaded)
    /\ (phase = "serving") => (model.loaded /\ log[1].level = "INFO")
    /\ (phase = "terminated") =>
           /\ ~model.loaded
           /\ handled = 0
           /\ log = <<LoadFailedEntry>>
           /\ \A t \in Threads : pc[t] = "idle"
\* the load failed: logged, terminated, nothing served
W_C6 == phase = "terminated" /\ Len(log) = 1 /\ log[1].level = "ERROR"

\* C7: the same image submitted again, with other requests in between,
\* gets the same detections as the first time.
C7_Idempotent ==
    \A t \in Threads :
        (Ok200(t) /\ req[t].data \in Pictures) =>
            /\ first[req[t].data].seen
            /\ response[t].detections = first[req[t].data].dets
\* imgA answered, then a failed request, then imgA answered again
W_C7 ==
    \E t \in Threads :
        /\ Ok200(t) /\ req[t].data = "imgA"
        /\ ~first["imgB"].seen
        /\ Len(log) = 4
        /\ log[2].msg = "Detected object(s)" /\ log[2].n > 0
        /\ log[3].level = "ERROR"
        /\ log[4].msg = "Detected object(s)"

\* what a request gets when it is the only one the process handles
Alone(r, m) ==
    IF r.method = "GET /" THEN {HomeResponse}
    ELSE IF "video_frame" \notin r.fields
    THEN {JsonError(400, NoFrameProvided)}
    ELSE UNION {
        IF d.raised # "" THEN {JsonError(500, d.raised)}
        ELSE IF d.frame = NoFrame THEN {JsonError(400, InvalidFrame)}
        ELSE {JsonError(500, InferenceError),
              JsonDetections(MapResults(m, ModelCall(m, d.frame, ConfArg)))}
        : d \in imdecode(r.data)}

C8_AloneResponse ==
    \A t \in Threads : Done(t) => response[t] \in Alone(req[t], model)
C8_ModelFrozen == (phase = "serving") => (model' = model)
C8_LocalsPrivate ==
    \A u \in Threads :
        (frame'[u] # frame[u] \/ results'[u] # results[u]
            \/ detections'[u] # detections[u]) => pc'[u] # pc[u]
\* C8: under any interleaving of requests the model is not modified after
\* load, the frame, results and detections of an invocation are touched by
\* that invocation only, and each response is one the request gets alone.
C8_Isolation ==
    /\ []C8_AloneResponse
    /\ [][C8_ModelFrozen]_vars
    /\ [][C8_LocalsPrivate]_vars
\* a response for imgA while another thread is mapping or answering imgB
W_C8 ==
    \E t \in Threads : \E u \in Threads \ {t} :
        /\ Ok200(t) /\ req[t].data = "imgA"
        /\ Len(response[t].detections) > 0
        /\ pc[u] \in {"map", "respond"} /\ req[u].data = "imgB"

\* C9, as stated: every emitted bbox has x1 < x2 and y1 < y2.
C9_StrictCorners ==
    \A t \in Threads :
        Ok200(t) =>
            \A i \in 1..Len(response[t].detections) :
                LET b == response[t].detections[i].bbox
                IN  b[1] < b[3] /\ b[2] < b[4]
\* C9, amended: every emitted bbox is four integers with x1 <= x2 and
\* y1 <= y2; the corners coincide when both truncate to the same integer.
C9_OrderedCorners ==
    \A t \in Threads :
        Ok200(t) =>
            \A i \in 1..Len(response[t].detections) :
                LET b == response[t].detections[i].bbox
                IN  /\ Len(b) = 4
                    /\ \A k \in 1..4 : b[k] \in Int
                    /\ b[1] <= b[3] /\ b[2] <= b[4]
\* a box narrower than a pixel, emitted with x1 = x2
W_C9 ==
    \E t \in Threads :
        /\ Ok200(t) /\ req[t].data \in Pictures
        /\ Len(response[t].detections) = 1
        /\ Len(model.predict[req[t].data]) = 1
        /\ model.predict[req[t].data][1].xyxy[1] < model.predict[req[t].data][1].xyxy[3]
        /\ response[t].detections[1].bbox[1] = response[t].detections[1].bbox[3]

\* the boxes the model call returned to the invocation, across all results
RECURSIVE AllBoxes(_)
AllBoxes(rs) == IF rs = <<>> THEN <<>> ELSE rs[1].boxes \o AllBoxes(Tail(rs))

\* C10: a call that decodes its image and raises nothing answers 200 with
\* one detection per box the model returned, in the model's order, labelled
\* from the model's class-name table; the logged count is the length of the
\* list; no boxes give an empty list.
C10_OnePerBoxInOrder ==
    (pc[1] = "done" /\ IsDetect(1) /\ req[1].data \in Pictures /\ exc[1] = "")
        => LET bs == AllBoxes(results[1])
               ds == response[1].detections
           IN  /\ response[1].status = 200 /\ response[1].kind = "json"
               /\ Len(ds) = Len(bs)
               /\ \A i \in 1..Len(bs) :
                      /\ ds[i].label = model.names[bs[i].cls]
                      /\ ds[i].confidence = bs[i].conf
               /\ log[Len(log)].msg = "Detected object(s)"
               /\ log[Len(log)].n = Len(ds)
\* two boxes of different classes, answered in the model's order
W_C10 ==
    /\ Ok200(1)
    /\ Len(response[1].detections) = 2
    /\ response[1].detections[1].label = "bicycle"
    /\ response[1].detections[2].label = "person"
    /\ log[Len(log)].n = 2
====
